---- MODULE Spec2Model ----
(***************************************************************************)
(* ParamBatchExporter: a CAD add-in that reads parameter sets from a JSON  *)
(* file, applies each to the host design, exports a STEP file per set and  *)
(* optionally posts G-code for a CAM operation.                            *)
(*                                                                         *)
(* Text is modelled as a sequence of one-character strings.  Python's      *)
(* None and the empty string are both the empty sequence wherever the      *)
(* code only tests truthiness (name, outputDirectory, gcodeDirectory,      *)
(* ncProgramName, operationName).                                          *)
(***************************************************************************)
EXTENDS Integers, Sequences, FiniteSets, TLC

VARIABLES
    fn,               \* the pure-function harness: which function, its input, its result
    input,            \* the InputChanged event: changed input id, its value, the path text
    doc,              \* the host document and the JSON file: hasDesign, fileState, data
    cam,              \* the host's CAM side: product available, operations, NC programs
    pc,               \* position of the handler
    startButton,      \* value of the Start button input
    boxes,            \* message boxes shown so far, in order
    result,           \* the BatchResult returned by process_parameter_sets
    idx,              \* 1-based index of the model being processed
    messages,         \* process_parameter_sets' local list
    overall_success,  \* process_parameter_sets' local flag
    params,           \* host parameters: name -> expression, <<>> when absent
    timelineMoved,    \* timeline.moveToEnd() ran after the latest parameter write      
    files,            \* STEP and NC files written, in order
    lastExport,       \* what the last executed STEP export saw
    dirs,             \* directories created
    workspace,        \* the host's active workspace
    calls,            \* host calls made for the current model, in order
    started,          \* indices of the models whose apply_parameters was entered, in order
    opFlags,          \* the operation's toolpath flags as read by generate_operation_toolpath
    generating,       \* operation.isGenerating
    elapsed           \* seconds of wall-clock time since start_time

vars == <<fn, input, doc, cam, pc, startButton, boxes, result, idx, messages,
          overall_success, params, timelineMoved, files, lastExport, dirs,
          workspace, calls, started, opFlags, generating, elapsed>>

(***************************************************************************)
(* Bounds of the model.                                                    *)
(***************************************************************************)
MaxModels == 2
MaxNameLen == 4
MaxOpNameLen == 5
MaxOps == 2
TickSeconds == 50

(***************************************************************************)
(* Text helpers.                                                           *)
(***************************************************************************)
RECURSIVE SeqsUpTo(_, _)
SeqsUpTo(S, n) ==
    IF n = 0 THEN {<<>>}
    ELSE LET shorter == SeqsUpTo(S, n - 1)
         IN  shorter \cup {Append(s, c) : s \in {t \in shorter : Len(t) = n - 1}, c \in S}

\* s occurs in t as a contiguous block (Python's "s in t").
Contains(t, s) ==
    \E i \in 0..(Len(t) - Len(s)) : \A j \in 1..Len(s) : t[i + j] = s[j]

\* str.replace(old, new) for single characters.
ReplaceChar(s, old, new) == [i \in 1..Len(s) |-> IF s[i] = old THEN new ELSE s[i]]

\* Characters removed by str.replace(' ', '').
RemoveChar(s, c) == SelectSeq(s, LAMBDA x : x # c)

\* str.strip(chars): drop leading and trailing characters that are in chars.
RECURSIVE LStrip(_, _)
LStrip(s, chars) ==
    IF s # <<>> /\ Head(s) \in chars THEN LStrip(Tail(s), chars) ELSE s

RECURSIVE RStrip(_, _)
RStrip(s, chars) ==
    IF s # <<>> /\ s[Len(s)] \in chars
    THEN RStrip(SubSeq(s, 1, Len(s) - 1), chars)
    ELSE s

Strip(s, chars) == RStrip(LStrip(s, chars), chars)

\* The characters str.strip() with no argument removes.
Whitespace == {" ", "\t"}

\* str.lower() on the letters the model uses.
UpperToLower == [c \in {"A", "F", "T"} |->
                    CASE c = "A" -> "a" [] c = "F" -> "f" [] c = "T" -> "t"]

LowerChar(c) == IF c \in DOMAIN UpperToLower THEN UpperToLower[c] ELSE c

Lower(s) == [i \in 1..Len(s) |-> LowerChar(s[i])]

(***************************************************************************)
(* sanitize_filename                                                       *)
(***************************************************************************)
invalid_chars == {"<", ">", ":", "\"", "/", "\\", "|", "?", "*"}

\* ''.join('_' if ch in invalid_chars else ch for ch in name)
ReplaceInvalid(name) ==
    [i \in 1..Len(name) |-> IF name[i] \in invalid_chars THEN "_" ELSE name[i]]

ModelLiteral == <<"m", "o", "d", "e", "l">>

\* A sanitizer that forgets sanitized.replace(' ', '_').
sanitize_filename_keep_spaces(name) ==
    LET sanitized == ReplaceInvalid(name)
        stripped  == Strip(sanitized, {"_"})
    IN  IF stripped = <<>> THEN ModelLiteral ELSE stripped

sanitize_filename(name) ==
    LET sanitized == ReplaceChar(ReplaceInvalid(name), " ", "_")
        stripped  == Strip(sanitized, {"_"})
    IN  IF stripped = <<>> THEN ModelLiteral ELSE stripped

(***************************************************************************)
(* normalize_operation_name                                                *)
(***************************************************************************)
\* The loop over the characters of name: state is (skip, cleaned).
RECURSIVE NormalizeLoop(_, _, _, _)
NormalizeLoop(name, i, skip, cleaned) ==
    IF i > Len(name) THEN cleaned
    ELSE IF name[i] = "[" THEN NormalizeLoop(name, i + 1, TRUE, cleaned)
    ELSE IF name[i] = "]" THEN NormalizeLoop(name, i + 1, FALSE, cleaned)
    ELSE IF ~skip THEN NormalizeLoop(name, i + 1, skip, Append(cleaned, name[i]))
    ELSE NormalizeLoop(name, i + 1, skip, cleaned)

\* A loop that tracks the nesting depth of the brackets instead of one flag.
RECURSIVE NormalizeLoopNested(_, _, _, _)
NormalizeLoopNested(name, i, depth, cleaned) ==
    IF i > Len(name) THEN cleaned
    ELSE IF name[i] = "[" THEN NormalizeLoopNested(name, i + 1, depth + 1, cleaned)
    ELSE IF name[i] = "]"
         THEN NormalizeLoopNested(name, i + 1, IF depth > 0 THEN depth - 1 ELSE 0, cleaned)
    ELSE IF depth = 0 THEN NormalizeLoopNested(name, i + 1, depth, Append(cleaned, name[i]))
    ELSE NormalizeLoopNested(name, i + 1, depth, cleaned)

\* A normalizer that forgets lower().
normalize_operation_name_case_sensitive(name) ==
    IF name = <<>> THEN <<>>
    ELSE RemoveChar(Strip(NormalizeLoop(name, 1, FALSE, <<>>), Whitespace), " ")

normalize_operation_name(name) ==
    IF name = <<>> THEN <<>>
    ELSE RemoveChar(Lower(Strip(NormalizeLoop(name, 1, FALSE, <<>>), Whitespace)), " ")

(***************************************************************************)
(* find_operation_by_name and find_nc_program_by_name.  A collection is a  *)
(* sequence of names; NoItem stands for an index at which item() returns   *)
(* nothing.  The result is the index of the object returned, 0 for None.   *)
(***************************************************************************)
NoItem == <<"\n">>

\* The host's itemByName: the first object whose name is exactly target.
ItemByName(items, target) ==
    LET hits == {i \in 1..Len(items) : items[i] # NoItem /\ items[i] = target}
    IN  IF hits = {} THEN 0 ELSE CHOOSE i \in hits : \A j \in hits : i <= j

\* The linear scan of find_operation_by_name: the first index at which any
\* of the three tests succeeds.
OperationMatches(name, target_name) ==
    LET normalized_target == normalize_operation_name(target_name)
    IN  \/ name = target_name
        \/ normalize_operation_name(name) = normalized_target
        \/ /\ normalized_target # <<>>
           /\ Contains(normalize_operation_name(name), normalized_target)

ScanOperations(operations, target_name) ==
    LET hits == {i \in 1..Len(operations) :
                    /\ operations[i] # NoItem
                    /\ OperationMatches(operations[i], target_name)}
    IN  IF hits = {} THEN 0 ELSE CHOOSE i \in hits : \A j \in hits : i <= j

find_operation_by_name(operations, hasItemByName, target_name) ==
    LET op == IF hasItemByName THEN ItemByName(operations, target_name) ELSE 0
    IN  IF op # 0 THEN op ELSE ScanOperations(operations, target_name)

ScanPrograms(programs, target_name) ==
    LET hits == {i \in 1..Len(programs) :
                    programs[i] # NoItem /\ programs[i] = target_name}
    IN  IF hits = {} THEN 0 ELSE CHOOSE i \in hits : \A j \in hits : i <= j

find_nc_program_by_name(programs, hasItemByName, target_name) ==
    LET program == IF hasItemByName THEN ItemByName(programs, target_name) ELSE 0
    IN  IF program # 0 THEN program ELSE ScanPrograms(programs, target_name)

(***************************************************************************)
(* The inputs of a run: the event, the JSON document, the host's CAM side. *)
(***************************************************************************)
required_params == <<"height", "width", "thickness">>

Num(t) == [isNumber |-> TRUE, text |-> <<t>>]
Str(t) == [isNumber |-> FALSE, text |-> <<t>>]

\* An entry of "models": a JSON object (isMapping) with an optional name and
\* some of the required keys, or a JSON value of another type.
Models ==
    { [isMapping |-> TRUE, name |-> <<"a", "/", "b">>,
       vals |-> [p \in {"height", "width", "thickness"} |->
                    CASE p = "height" -> Num("1") [] p = "width" -> Num("2")
                      [] OTHER -> Num("3")]],
      [isMapping |-> TRUE, name |-> <<"a", ":", "b">>,
       vals |-> [p \in {"height", "width", "thickness"} |->
                    CASE p = "height" -> Num("4") [] p = "width" -> Str("2 * height")
                      [] OTHER -> Num("5")]],
      [isMapping |-> TRUE, name |-> <<"F", "A", "I", "L", "E", "D">>,
       vals |-> [p \in {"height", "width", "thickness"} |-> Num("6")]],
      [isMapping |-> TRUE, name |-> <<>>,
       vals |-> [p \in {"height", "thickness"} |-> Num("7")]],
      [isMapping |-> TRUE, name |-> <<>>,
       vals |-> [p \in {"height", "width", "thickness"} |->
                    CASE p = "height" -> Num("8") [] p = "width" -> Str("??")
                      [] OTHER -> Num("9")]],
      [isMapping |-> FALSE, name |-> <<>>, vals |-> <<>>] }

\* The host refuses an expression it cannot evaluate.
HostRejects(expression) == expression = <<"??">>

OutDirText == <<"o", "u", "t">>
GcodeDirText == <<"n", "c">>
ProgramText == <<"P", "1">>
TargetText == <<"f", "a", "1">>
OperationText == <<"F", "a", "1", " ", "[", "T", "]">>

ModelLists == SeqsUpTo(Models, MaxModels)

\* The parsed JSON object.  unit <<>> stands for an absent "unit" key.  The
\* unit is read by apply_parameters only, so the files with an explicit
\* unit are the ones without CAM fields.
DataChoices ==
    [ unit            : {<<>>},
      modelsIsList    : BOOLEAN,
      models          : ModelLists,
      outputDirectory : {<<>>, OutDirText},
      gcodeDirectory  : {<<>>, GcodeDirText},
      ncProgramName   : {<<>>, ProgramText},
      operationName   : {<<>>, TargetText} ]
    \cup
    [ unit            : {<<"i", "n">>},
      modelsIsList    : BOOLEAN,
      models          : ModelLists,
      outputDirectory : {<<>>, OutDirText},
      gcodeDirectory  : {<<>>},
      ncProgramName   : {<<>>},
      operationName   : {<<>>} ]

NoData ==
    [ unit |-> <<>>, modelsIsList |-> TRUE, models |-> <<>>, outputDirectory |-> <<>>,
      gcodeDirectory |-> <<>>, ncProgramName |-> <<>>, operationName |-> <<>> ]

NoDoc == [hasDesign |-> TRUE, fileState |-> "unread", data |-> NoData]

\* The host's CAM side as the run finds it.
CamHosts ==
    { [available |-> FALSE, hasItemByName |-> TRUE, operations |-> <<>>, ncPrograms |-> <<>>],
      [available |-> TRUE, hasItemByName |-> TRUE, operations |-> <<>>,
       ncPrograms |-> <<ProgramText>>],
      [available |-> TRUE, hasItemByName |-> FALSE, operations |-> <<OperationText>>,
       ncPrograms |-> <<>>],
      [available |-> TRUE, hasItemByName |-> TRUE, operations |-> <<OperationText>>,
       ncPrograms |-> <<ProgramText>>] }

NoCam == [available |-> FALSE, hasItemByName |-> FALSE, operations |-> <<>>, ncPrograms |-> <<>>]

Events ==
    [ id    : {"startButton", "jsonPathInput"},
      value : BOOLEAN,
      path  : {<<>>, <<" ">>, <<"p">>} ]

NoEvent == [id |-> "none", value |-> FALSE, path |-> <<>>]

\* What generate_operation_toolpath reads of the operation: isValid at line
\* 286, the four toolpath flags at lines 289-290, and hasToolpathError once
\* more at line 303 (errorAtEnd).
Flags(c, o, w, e) ==
    [isValid |-> TRUE, isToolpathComputed |-> c, isToolpathOutOfDate |-> o,
     hasToolpathWarning |-> w, hasToolpathError |-> e, errorAtEnd |-> e]

FlagChoices ==
    { Flags(TRUE, FALSE, FALSE, FALSE), Flags(FALSE, FALSE, FALSE, FALSE),
      Flags(TRUE, TRUE, FALSE, FALSE), Flags(TRUE, FALSE, TRUE, FALSE),
      Flags(TRUE, FALSE, FALSE, TRUE) }

NoFlags == Flags(TRUE, FALSE, FALSE, FALSE)

\* isValid was read as false; the toolpath flags were not read.
InvalidFlags == [NoFlags EXCEPT !.isValid = FALSE]

NoFn == [f |-> "none", arg |-> <<>>, aux |-> <<>>, flag |-> FALSE, done |-> FALSE, out |-> <<>>,
         found |-> 0]

NoExport == [model |-> 0, params |-> [p \in {"height", "width", "thickness"} |-> <<>>],
             timelineMoved |-> TRUE]

NoResult == [returned |-> FALSE, success |-> FALSE, messages |-> <<>>]

(***************************************************************************)
(* Messages.  A message is kept with the parts it is formatted from;       *)
(* MessageText is the string the code appends.                             *)
(***************************************************************************)
ExportedLiteral == <<":", " ", "E", "x", "p", "o", "r", "t", "e", "d", " ", "t", "o", " ">>
PostedLiteral == <<":", " ", "G", "-", "c", "o", "d", "e", " ", "p", "o", "s", "t", "e", "d", " ", "t", "o", " ">>
SkippedLiteral == <<":", " ", "S", "k", "i", "p", "p", "e", "d", " ", "G", "-", "c", "o", "d", "e", " ", "p", "o", "s", "t", "i", "n", "g", " ", "b", "e", "c", "a", "u", "s", "e", " ", "c", "o", "n", "f", "i", "g", "u", "r", "a", "t", "i", "o", "n", " ", "i", "s", " ", "i", "n", "c", "o", "m", "p", "l", "e", "t", "e", ".">>
FailedLiteral == <<":", " ", "F", "A", "I", "L", "E", "D", " ", "(">>
FailedWord == <<"F", "A", "I", "L", "E", "D">>
ModelPrefix == <<"M", "o", "d", "e", "l", "_">>
Digits == <<"1", "2", "3", "4", "5", "6", "7", "8", "9">>

Message(kind, model, name, detail) ==
    [kind |-> kind, model |-> model, name |-> name, detail |-> detail]

MessageText(m) ==
    CASE m.kind = "Exported" -> m.name \o ExportedLiteral \o m.detail
      [] m.kind = "Posted"   -> m.name \o PostedLiteral \o m.detail
      [] m.kind = "Skipped"  -> m.name \o SkippedLiteral
      [] m.kind = "FAILED"   -> m.name \o FailedLiteral \o m.detail \o <<")">>
      [] OTHER               -> m.detail

(***************************************************************************)
(* Helpers of process_parameter_sets.                                      *)
(***************************************************************************)
DefaultUnit == <<"m", "m">>

Unit(data) == IF data.unit = <<>> THEN DefaultUnit ELSE data.unit

\* if not isinstance(models, list) or not models
NoModelsFound(data) == ~data.modelsIsList \/ data.models = <<>>

\* A check that lets an absent outputDirectory through.
OutputDirMissingIgnored(data) == FALSE

\* if not output_dir
OutputDirMissing(data) == data.outputDirectory = <<>>


\* str(model.get('name') or f'Model_{index}')
ModelName(model, index) ==
    IF model.name # <<>> THEN model.name ELSE ModelPrefix \o <<Digits[index]>>

\* A test that takes one CAM field for all three.
CamConfiguredByAny(data) ==
    data.gcodeDirectory # <<>> \/ data.ncProgramName # <<>> \/ data.operationName # <<>>

\* if gcode_dir and nc_program_name and operation_name
CamConfigured(data) ==
    data.gcodeDirectory # <<>> /\ data.ncProgramName # <<>> /\ data.operationName # <<>>

\* elif any([gcode_dir, nc_program_name, operation_name])
CamPartlyConfigured(data) ==
    data.gcodeDirectory # <<>> \/ data.ncProgramName # <<>> \/ data.operationName # <<>>


(***************************************************************************)
(* apply_parameters, build_expression, export_model.                       *)
(***************************************************************************)
MissingParams(model) ==
    SelectSeq(required_params, LAMBDA p : p \notin DOMAIN model.vals)

build_expression(value, unit) ==
    IF value.isNumber THEN value.text \o <<" ">> \o unit ELSE value.text

\* The loop over required_params from position k: each parameter is
\* overwritten when it exists and added otherwise; the host's refusal of an
\* expression ends the loop with the earlier writes in place.
RECURSIVE ApplyLoop(_, _, _, _, _)
ApplyLoop(ps, model, unit, k, log) ==
    IF k > Len(required_params) THEN [params |-> ps, raised |-> FALSE, calls |-> log]
    ELSE LET name       == required_params[k]
             expression == build_expression(model.vals[name], unit)
             call       == IF ps[name] # <<>> THEN "setExpression" ELSE "addParameter"
         IN  IF HostRejects(expression)
             THEN [params |-> ps, raised |-> TRUE, calls |-> log]
             ELSE ApplyLoop([ps EXCEPT ![name] = expression], model, unit, k + 1,
                            Append(log, call))

\* apply_parameters that checks each key only when its turn comes: the keys
\* before the first missing one are written.
RECURSIVE ApplyLoopLate(_, _, _, _, _)
ApplyLoopLate(ps, model, unit, k, log) ==
    IF k > Len(required_params) THEN [params |-> ps, raised |-> FALSE, calls |-> log]
    ELSE LET name == required_params[k]
             call == IF ps[name] # <<>> THEN "setExpression" ELSE "addParameter"
         IN  IF name \notin DOMAIN model.vals
             THEN [params |-> ps, raised |-> TRUE, calls |-> log]
             ELSE IF HostRejects(build_expression(model.vals[name], unit))
             THEN [params |-> ps, raised |-> TRUE, calls |-> log]
             ELSE ApplyLoopLate([ps EXCEPT ![name] = build_expression(model.vals[name], unit)],
                                model, unit, k + 1, Append(log, call))

apply_parameters_checks_late(ps, moved, model, unit) ==
    LET r == ApplyLoopLate(ps, model, unit, 1, <<>>)
    IN  IF r.raised
        THEN [params |-> r.params, timelineMoved |-> moved /\ r.calls = <<>>,
              raised |-> TRUE, calls |-> r.calls]
        ELSE [params |-> r.params, timelineMoved |-> TRUE,
              raised |-> FALSE, calls |-> Append(r.calls, "moveToEnd")]

\* apply_parameters without design.timeline.moveToEnd().
apply_parameters_no_move(ps, moved, model, unit) ==
    IF MissingParams(model) # <<>>
    THEN [params |-> ps, timelineMoved |-> moved, raised |-> TRUE, calls |-> <<>>]
    ELSE LET r == ApplyLoop(ps, model, unit, 1, <<>>)
         IN  [params |-> r.params, timelineMoved |-> moved /\ r.calls = <<>>,
              raised |-> r.raised, calls |-> r.calls]

\* apply_parameters on the host parameters ps and a timeline that is at its
\* end (moved) or not: the parameters and the timeline afterwards, whether
\* it raised, and the host calls it made.  A parameter write leaves the
\* timeline's marker short of the end until moveToEnd() runs.
apply_parameters(ps, moved, model, unit) ==
    IF MissingParams(model) # <<>>
    THEN [params |-> ps, timelineMoved |-> moved, raised |-> TRUE, calls |-> <<>>]
    ELSE LET r == ApplyLoop(ps, model, unit, 1, <<>>)
         IN  IF r.raised
             THEN [params |-> r.params, timelineMoved |-> moved /\ r.calls = <<>>,
                   raised |-> TRUE, calls |-> r.calls]
             ELSE [params |-> r.params, timelineMoved |-> TRUE,
                   raised |-> FALSE, calls |-> Append(r.calls, "moveToEnd")]

ExportPath(output_dir, model_name) ==
    output_dir \o <<"/">> \o sanitize_filename(model_name) \o <<".step">>

GcodePath(output_dir, model_name, operation_name) ==
    output_dir \o <<"/">> \o sanitize_filename(model_name) \o <<"_">>
        \o sanitize_filename(operation_name) \o <<".nc">>

(***************************************************************************)
(* generate_operation_toolpath.                                            *)
(***************************************************************************)
timeout == 120

\* A test that lets a toolpath with a warning pass as current.
needs_regen_ignores_warning(flags) ==
    \/ ~flags.isToolpathComputed
    \/ flags.isToolpathOutOfDate
    \/ flags.hasToolpathError

needs_regen(flags) ==
    \/ ~flags.isToolpathComputed
    \/ flags.isToolpathOutOfDate
    \/ flags.hasToolpathWarning
    \/ flags.hasToolpathError

\* A loop without the clock check.
TimedOutNever(seconds) == FALSE

\* if time.time() - start_time > timeout
TimedOut(seconds) == seconds > timeout


(***************************************************************************)
(* The state machine: one activation of InputChangedEventHandler.notify.   *)
(***************************************************************************)
PipelineInit ==
    /\ input = NoEvent
    /\ doc = NoDoc
    /\ cam = NoCam
    /\ pc = "idle"
    /\ startButton = FALSE
    /\ boxes = <<>>
    /\ result = NoResult
    /\ idx = 0
    /\ messages = <<>>
    /\ overall_success = TRUE
    /\ params = [p \in {"height", "width", "thickness"} |-> <<>>]
    /\ timelineMoved = TRUE
    /\ files = <<>>
    /\ lastExport = NoExport
    /\ dirs = {}
    /\ workspace = "design"
    /\ calls = <<>>
    /\ started = <<>>
    /\ opFlags = NoFlags
    /\ generating = FALSE
    /\ elapsed = 0

Init == fn = NoFn /\ PipelineInit

hostVars == <<params, timelineMoved, files, lastExport, dirs, workspace, calls>>
batchVars == <<idx, messages, overall_success, started>>
toolpathVars == <<opFlags, generating, elapsed>>
uiVars == <<startButton, boxes>>

\* notify, lines 120-122: another input changed or the button went off; the
\* finally clause still resets the button.
NotifyIgnored ==
    /\ pc = "idle"
    /\ \E ev \in Events :
        /\ ev.id # "startButton" \/ ~ev.value
        /\ input' = ev
    /\ startButton' = FALSE
    /\ pc' = "returned"
    /\ UNCHANGED <<fn, doc, cam, boxes, result, batchVars, hostVars, toolpathVars>>

\* notify, lines 124-128: the path is empty after strip().
NotifyNoPath ==
    /\ pc = "idle"
    /\ \E ev \in Events :
        /\ ev.id = "startButton" /\ ev.value
        /\ Strip(ev.path, Whitespace) = <<>>
        /\ input' = ev
    /\ boxes' = Append(boxes, "enter path")
    /\ startButton' = FALSE
    /\ pc' = "returned"
    /\ UNCHANGED <<fn, doc, cam, result, batchVars, hostVars, toolpathVars>>

\* notify, line 130: process_parameter_sets is called.
NotifyStart ==
    /\ pc = "idle"
    /\ \E ev \in Events :
        /\ ev.id = "startButton" /\ ev.value
        /\ Strip(ev.path, Whitespace) # <<>>
        /\ input' = ev
    /\ startButton' = TRUE
    /\ pc' = "process"
    /\ UNCHANGED <<fn, doc, cam, boxes, result, batchVars, hostVars, toolpathVars>>

Return(success, msgs) ==
    /\ result' = [returned |-> TRUE, success |-> success, messages |-> msgs]
    /\ pc' = "summary"

\* process_parameter_sets, lines 167-169.
ProcessNoDesign ==
    /\ pc = "process"
    /\ doc' = [doc EXCEPT !.hasDesign = FALSE]
    /\ Return(FALSE, <<Message("NoDesign", 0, <<>>, <<"Active design not found.">>)>>)
    /\ UNCHANGED <<fn, input, cam, uiVars, batchVars, hostVars, toolpathVars>>

\* load_parameter_sets raises: no such file (line 222) or json.load fails
\* (line 225); the outer handler returns the failure (lines 216-217).
ProcessLoadFails ==
    /\ pc = "process"
    /\ \E st \in {"missing", "malformed"} :
        /\ doc' = [doc EXCEPT !.fileState = st]
        /\ Return(FALSE, <<Message("Unexpected", 0, <<>>, <<"Unexpected error: ", st>>)>>)
    /\ UNCHANGED <<fn, input, cam, uiVars, batchVars, hostVars, toolpathVars>>

\* lines 181-182.
ProcessNoModels ==
    /\ pc = "process"
    /\ \E data \in DataChoices :
        /\ NoModelsFound(data)
        /\ doc' = [doc EXCEPT !.fileState = "ok", !.data = data]
    /\ Return(FALSE, <<Message("NoModels", 0, <<>>, <<"No models found in JSON file.">>)>>)
    /\ UNCHANGED <<fn, input, cam, uiVars, batchVars, hostVars, toolpathVars>>

\* lines 184-185.
ProcessNoOutputDir ==
    /\ pc = "process"
    /\ \E data \in DataChoices :
        /\ ~NoModelsFound(data)
        /\ OutputDirMissing(data)
        /\ doc' = [doc EXCEPT !.fileState = "ok", !.data = data]
    /\ Return(FALSE, <<Message("NoOutputDir", 0, <<>>,
                               <<"\"outputDirectory\" is missing in JSON file.">>)>>)
    /\ UNCHANGED <<fn, input, cam, uiVars, batchVars, hostVars, toolpathVars>>

\* lines 171-192: the configuration is accepted, the directories are made
\* and the loop starts.
ProcessBegin ==
    /\ pc = "process"
    /\ \E data \in DataChoices :
        /\ ~NoModelsFound(data)
        /\ ~OutputDirMissing(data)
        /\ doc' = [doc EXCEPT !.fileState = "ok", !.data = data]
        /\ dirs' = dirs \cup {data.outputDirectory}
                        \cup (IF data.gcodeDirectory # <<>> THEN {data.gcodeDirectory} ELSE {})
        /\ IF CamConfigured(data) THEN cam' \in CamHosts ELSE cam' = cam
    /\ idx' = 1
    /\ messages' = <<>>
    /\ overall_success' = TRUE
    /\ pc' = "model"
    /\ UNCHANGED <<fn, input, uiVars, result, started, params, timelineMoved, files,
                   lastExport, workspace, calls, toolpathVars>>

(***************************************************************************)
(* One iteration of the loop over models (lines 194-213), split by the     *)
(* way it ends.                                                            *)
(***************************************************************************)
InLoop == pc = "model" /\ idx \in 1..Len(doc.data.models)

CurModel == doc.data.models[idx]
CurName == ModelName(CurModel, idx)
Applied == apply_parameters(params, timelineMoved, CurModel, Unit(doc.data))

\* design_workspace = get_active_workspace(app): the design workspace, the
\* one in which the active product is a design.
design_workspace == "design"

ExportedMessage ==
    Message("Exported", idx, CurName, ExportPath(doc.data.outputDirectory, CurName))

\* An except clause that forgets overall_success = False.
FailModelKeepsSuccess(pre, reason) ==
    /\ messages' = Append(messages \o pre, Message("FAILED", idx, CurName, reason))
    /\ idx' = idx + 1
    /\ pc' = "model"
    /\ UNCHANGED <<overall_success, result>>

\* The except clause of the loop body (lines 210-213), after the messages
\* pre were appended in the try block.
FailModel(pre, reason) ==
    /\ messages' = Append(messages \o pre, Message("FAILED", idx, CurName, reason))
    /\ overall_success' = FALSE
    /\ idx' = idx + 1
    /\ pc' = "model"
    /\ UNCHANGED result

\* An iteration that puts its lines in front of the list.
NextModelPrepends(appended) ==
    /\ messages' = appended \o messages
    /\ idx' = idx + 1
    /\ pc' = "model"
    /\ UNCHANGED <<overall_success, result>>

\* The end of an iteration that raised nothing.
NextModel(appended) ==
    /\ messages' = messages \o appended
    /\ idx' = idx + 1
    /\ pc' = "model"
    /\ UNCHANGED <<overall_success, result>>

\* Line 195 on an entry that is no JSON object: model.get raises outside the
\* inner try, and the outer handler (lines 216-217) returns.
ModelNotMapping ==
    /\ InLoop
    /\ ~CurModel.isMapping
    /\ Return(FALSE, <<Message("Unexpected", 0, <<>>, <<"Unexpected error: ", "no get">>)>>)
    /\ UNCHANGED <<fn, input, doc, cam, uiVars, batchVars, hostVars, toolpathVars>>

\* apply_parameters, lines 229-232.
ModelMissingParams ==
    /\ InLoop
    /\ CurModel.isMapping
    /\ MissingParams(CurModel) # <<>>
    /\ started' = Append(started, idx)
    /\ params' = Applied.params
    /\ timelineMoved' = Applied.timelineMoved
    /\ calls' = Applied.calls
    /\ FailModel(<<>>, <<"Missing parameters: ">> \o MissingParams(CurModel))
    /\ UNCHANGED <<fn, input, doc, cam, uiVars, files, lastExport, dirs, workspace,
                   toolpathVars>>

ApplyEntered ==
    /\ InLoop
    /\ CurModel.isMapping
    /\ MissingParams(CurModel) = <<>>
    /\ started' = Append(started, idx)
    /\ params' = Applied.params
    /\ timelineMoved' = Applied.timelineMoved

\* apply_parameters, lines 234-244: the host refuses an expression.
ModelParameterRejected ==
    /\ ApplyEntered
    /\ Applied.raised
    /\ calls' = Applied.calls
    /\ FailModel(<<>>, <<"host refused the expression">>)
    /\ UNCHANGED <<fn, input, doc, cam, uiVars, files, lastExport, dirs, workspace,
                   toolpathVars>>

\* export_model, lines 256-260: the host's export raises.
ModelExportFails ==
    /\ ApplyEntered
    /\ ~Applied.raised
    /\ calls' = Append(Applied.calls, "export")
    /\ FailModel(<<>>, <<"export failed">>)
    /\ UNCHANGED <<fn, input, doc, cam, uiVars, files, lastExport, dirs, workspace,
                   toolpathVars>>

\* Lines 197-199: the parameters are applied and the STEP file is written.
ExportDone ==
    /\ ApplyEntered
    /\ ~Applied.raised
    /\ files' = Append(files, ExportPath(doc.data.outputDirectory, CurName))
    /\ lastExport' = [model |-> idx, params |-> Applied.params,
                      timelineMoved |-> Applied.timelineMoved]

\* Neither branch of lines 201-209 is taken.
ModelExported ==
    /\ ExportDone
    /\ ~CamConfigured(doc.data)
    /\ ~CamPartlyConfigured(doc.data)
    /\ calls' = Append(Applied.calls, "export")
    /\ NextModel(<<ExportedMessage>>)
    /\ UNCHANGED <<fn, input, doc, cam, uiVars, dirs, workspace, toolpathVars>>

\* Lines 208-209.
ModelCamSkipped ==
    /\ ExportDone
    /\ ~CamConfigured(doc.data)
    /\ CamPartlyConfigured(doc.data)
    /\ calls' = Append(Applied.calls, "export")
    /\ NextModel(<<ExportedMessage, Message("Skipped", idx, CurName, <<>>)>>)
    /\ UNCHANGED <<fn, input, doc, cam, uiVars, dirs, workspace, toolpathVars>>

\* Lines 201-202: activate_manufacture_workspace activates the CAM workspace
\* and returns the CAM product, if the document has one.
CamEntered ==
    /\ ExportDone
    /\ CamConfigured(doc.data)
    /\ workspace' = "cam"

CamCalls == Applied.calls \o <<"export", "activateCAM">>

FoundOperation ==
    find_operation_by_name(cam.operations, cam.hasItemByName, doc.data.operationName)

\* Lines 203-204.
ModelCamUnavailable ==
    /\ CamEntered
    /\ ~cam.available
    /\ calls' = CamCalls
    /\ FailModel(<<ExportedMessage>>, <<"CAM workspace not available.">>)
    /\ UNCHANGED <<fn, input, doc, cam, uiVars, dirs, toolpathVars>>

\* generate_gcode, lines 265-267.
ModelOperationNotFound ==
    /\ CamEntered
    /\ cam.available
    /\ FoundOperation = 0
    /\ calls' = Append(CamCalls, "find_operation")
    /\ FailModel(<<ExportedMessage>>, <<"CAM operation not found">>)
    /\ UNCHANGED <<fn, input, doc, cam, uiVars, dirs, toolpathVars>>

ToolpathEntered ==
    /\ CamEntered
    /\ cam.available
    /\ FoundOperation # 0

\* generate_operation_toolpath, lines 286-287.
ModelOperationInvalid ==
    /\ ToolpathEntered
    /\ opFlags' = InvalidFlags
    /\ calls' = Append(CamCalls, "find_operation")
    /\ FailModel(<<ExportedMessage>>, <<"Operation is not valid.">>)
    /\ UNCHANGED <<fn, input, doc, cam, uiVars, dirs, generating, elapsed>>

\* Lines 289-292 with needs_regen false: on to line 303.
ModelToolpathCurrent ==
    /\ ToolpathEntered
    /\ \E flags \in FlagChoices :
        /\ ~needs_regen(flags)
        /\ opFlags' = flags
    /\ calls' = Append(CamCalls, "find_operation")
    /\ messages' = Append(messages, ExportedMessage)
    /\ pc' = "post"
    /\ UNCHANGED <<fn, input, doc, cam, uiVars, dirs, idx, overall_success, result,
                   generating, elapsed>>

\* Lines 292-294: generateToolpath() returns a false value.
ModelRegenRefused ==
    /\ ToolpathEntered
    /\ \E flags \in FlagChoices :
        /\ needs_regen(flags)
        /\ opFlags' = flags
    /\ calls' = CamCalls \o <<"find_operation", "generateToolpath">>
    /\ FailModel(<<ExportedMessage>>, <<"Failed to start toolpath generation">>)
    /\ UNCHANGED <<fn, input, doc, cam, uiVars, dirs, generating, elapsed>>

\* Lines 292-297: the trigger succeeded and start_time is taken.
ModelRegenStarted ==
    /\ ToolpathEntered
    /\ \E flags \in FlagChoices :
        /\ needs_regen(flags)
        /\ opFlags' = flags
    /\ calls' = CamCalls \o <<"find_operation", "generateToolpath">>
    /\ messages' = Append(messages, ExportedMessage)
    /\ generating' \in BOOLEAN
    /\ elapsed' = 0
    /\ pc' = "wait"
    /\ UNCHANGED <<fn, input, doc, cam, uiVars, dirs, idx, overall_success, result>>

(***************************************************************************)
(* The wait of generate_operation_toolpath (lines 298-301) and the rest of *)
(* generate_gcode.                                                         *)
(***************************************************************************)
Range(s) == {s[i] : i \in DOMAIN s}

\* The model's clock stops at the first reading past the timeout.
MaxClock == timeout + TickSeconds

ClockAfter(d) == IF elapsed + d > MaxClock THEN MaxClock ELSE elapsed + d

\* One pass of the loop body during which the clock moves on by d seconds:
\* adsk.doEvents() lets the host work, then the clock is read.  What
\* generate_operation_toolpath read of the operation is gone with its frame
\* when it raises, and when generate_gcode returns or raises after it.
Poll(d) ==
    /\ pc = "wait"
    /\ generating
    /\ elapsed' = ClockAfter(d)
    /\ IF TimedOut(ClockAfter(d))
       THEN /\ FailModel(<<>>, <<"Toolpath generation timed out">>)
            /\ opFlags' = NoFlags
            /\ UNCHANGED generating
       ELSE /\ generating' \in BOOLEAN
            /\ UNCHANGED <<pc, idx, messages, overall_success, result, opFlags>>
    /\ UNCHANGED <<fn, input, doc, cam, uiVars, started, hostVars>>

PollQuick == Poll(0)

PollTick == Poll(TickSeconds)

\* The loop condition is false: on to line 303, where hasToolpathError is
\* whatever the regeneration left.
WaitDone ==
    /\ pc = "wait"
    /\ ~generating
    /\ pc' = "post"
    /\ elapsed' = 0
    /\ \E e \in BOOLEAN : opFlags' = [opFlags EXCEPT !.errorAtEnd = e]
    /\ UNCHANGED <<fn, input, doc, cam, uiVars, result, batchVars, hostVars, generating>>

Regenerated == "generateToolpath" \in Range(calls)

\* A check that never sees the error flag.
ToolpathErrorIgnored == FALSE

\* if operation.hasToolpathError (line 303).  Without a regeneration the
\* flag is the one read at line 290.
ToolpathErrorAtEnd == opFlags.errorAtEnd

\* Lines 303-304.
PostToolpathError ==
    /\ pc = "post"
    /\ ToolpathErrorAtEnd
    /\ FailModel(<<>>, <<"Toolpath error detected">>)
    /\ opFlags' = NoFlags
    /\ UNCHANGED <<fn, input, doc, cam, uiVars, started, hostVars, generating, elapsed>>

FoundProgram ==
    find_nc_program_by_name(cam.ncPrograms, cam.hasItemByName, doc.data.ncProgramName)

\* generate_gcode, lines 271-273.
PostProgramNotFound ==
    /\ pc = "post"
    /\ ~ToolpathErrorAtEnd
    /\ FoundProgram = 0
    /\ calls' = Append(calls, "find_nc_program")
    /\ FailModel(<<>>, <<"NC program not found">>)
    /\ opFlags' = NoFlags
    /\ UNCHANGED <<fn, input, doc, cam, uiVars, started, params, timelineMoved, files,
                   lastExport, dirs, workspace, generating, elapsed>>

\* Lines 275-280: postToNCFile returns a false value.
PostFails ==
    /\ pc = "post"
    /\ ~ToolpathErrorAtEnd
    /\ FoundProgram # 0
    /\ calls' = calls \o <<"find_nc_program", "postToNCFile">>
    /\ FailModel(<<>>, <<"Failed to post NC program">>)
    /\ opFlags' = NoFlags
    /\ UNCHANGED <<fn, input, doc, cam, uiVars, started, params, timelineMoved, files,
                   lastExport, dirs, workspace, generating, elapsed>>

\* Lines 275-282 and 206-207: the G-code is posted, the message appended
\* and the earlier workspace activated again.
PostDone ==
    /\ pc = "post"
    /\ ~ToolpathErrorAtEnd
    /\ FoundProgram # 0
    /\ calls' = calls \o <<"find_nc_program", "postToNCFile", "restore_workspace">>
    /\ files' = Append(files, GcodePath(doc.data.gcodeDirectory, CurName,
                                        doc.data.operationName))
    /\ workspace' = design_workspace
    /\ NextModel(<<Message("Posted", idx, CurName,
                           GcodePath(doc.data.gcodeDirectory, CurName,
                                     doc.data.operationName))>>)
    /\ opFlags' = NoFlags
    /\ UNCHANGED <<fn, input, doc, cam, uiVars, started, params, timelineMoved,
                   lastExport, dirs, generating, elapsed>>

\* Line 215.
ProcessReturn ==
    /\ pc = "model"
    /\ idx > Len(doc.data.models)
    /\ Return(overall_success, messages)
    /\ UNCHANGED <<fn, input, doc, cam, uiVars, batchVars, hostVars, toolpathVars>>

\* A handler without the finally clause.
ShowSummaryKeepsButton ==
    /\ pc = "summary"
    /\ boxes' = Append(boxes, IF result.success THEN "completed" ELSE "failed")
    /\ pc' = "returned"
    /\ UNCHANGED <<fn, input, doc, cam, startButton, result, batchVars, hostVars,
                   toolpathVars>>

\* notify, lines 132-146: one message box with the summary, then the
\* finally clause.
ShowSummary ==
    /\ pc = "summary"
    /\ boxes' = Append(boxes, IF result.success THEN "completed" ELSE "failed")
    /\ startButton' = FALSE
    /\ pc' = "returned"
    /\ UNCHANGED <<fn, input, doc, cam, result, batchVars, hostVars, toolpathVars>>

Next ==
    \/ NotifyIgnored \/ NotifyNoPath \/ NotifyStart
    \/ ProcessNoDesign \/ ProcessLoadFails \/ ProcessNoModels \/ ProcessNoOutputDir
    \/ ProcessBegin
    \/ ModelNotMapping \/ ModelMissingParams \/ ModelParameterRejected
    \/ ModelExportFails \/ ModelExported \/ ModelCamSkipped
    \/ ModelCamUnavailable \/ ModelOperationNotFound \/ ModelOperationInvalid
    \/ ModelToolpathCurrent \/ ModelRegenRefused \/ ModelRegenStarted
    \/ PollQuick \/ PollTick \/ WaitDone
    \/ PostToolpathError \/ PostProgramNotFound \/ PostFails \/ PostDone
    \/ ProcessReturn \/ ShowSummary

Spec == Init /\ [][Next]_vars

\* The wall clock moves on while the loop runs, and a loop whose condition
\* is false is left.
FairSpec == Spec /\ WF_vars(PollTick) /\ WF_vars(WaitDone)

(***************************************************************************)
(* Harness for the pure functions: the input is drawn at the start and the *)
(* function applied once.                                                  *)
(***************************************************************************)
SanitizeAlphabet == {"a", "/", "*", " ", "_"}

SanitizeExample == <<"a", "/", "b", "\\", "c", ":", "d">>

SanitizeInputs == SeqsUpTo(SanitizeAlphabet, MaxNameLen) \cup {SanitizeExample}

NormalizeAlphabet == {"F", "f", " ", "[", "]", "\t"}

NormalizeInputs == SeqsUpTo(NormalizeAlphabet, MaxOpNameLen) \cup {OperationText}

FindNames ==
    { OperationText, TargetText, <<"F", "a", " ", "1">>, <<"a", "1">>,
      <<"[", "T", "]">>, <<"x">>, <<"x", "F", "a", "1">> }

FindCollections == SeqsUpTo(FindNames \cup {NoItem}, MaxOps)

Call(f, arg, aux, flag) ==
    [f |-> f, arg |-> arg, aux |-> aux, flag |-> flag, done |-> FALSE, out |-> <<>>,
     found |-> 0]

InitSanitize ==
    /\ fn \in {Call("sanitize_filename", n, <<>>, FALSE) : n \in SanitizeInputs}
    /\ PipelineInit

CallSanitize ==
    /\ fn.f = "sanitize_filename"
    /\ ~fn.done
    /\ fn' = [fn EXCEPT !.done = TRUE, !.out = sanitize_filename(fn.arg)]
    /\ UNCHANGED <<input, doc, cam, pc, uiVars, result, batchVars, hostVars, toolpathVars>>

SpecSanitize == InitSanitize /\ [][CallSanitize]_vars

InitLookup ==
    /\ \/ fn \in {Call("normalize_operation_name", n, <<>>, FALSE) : n \in NormalizeInputs}
       \/ fn \in {Call("find_operation_by_name", t, ops, h) :
                     t \in FindNames \cup {<<>>}, ops \in FindCollections, h \in BOOLEAN}
       \/ fn \in {Call("find_nc_program_by_name", t, ops, h) :
                     t \in FindNames \cup {<<>>}, ops \in FindCollections, h \in BOOLEAN}
    /\ PipelineInit

CallNormalize ==
    /\ fn.f = "normalize_operation_name"
    /\ ~fn.done
    /\ fn' = [fn EXCEPT !.done = TRUE, !.out = normalize_operation_name(fn.arg)]
    /\ UNCHANGED <<input, doc, cam, pc, uiVars, result, batchVars, hostVars, toolpathVars>>

CallFindOperation ==
    /\ fn.f = "find_operation_by_name"
    /\ ~fn.done
    /\ fn' = [fn EXCEPT !.done = TRUE,
                        !.found = find_operation_by_name(fn.aux, fn.flag, fn.arg)]
    /\ UNCHANGED <<input, doc, cam, pc, uiVars, result, batchVars, hostVars, toolpathVars>>

CallFindProgram ==
    /\ fn.f = "find_nc_program_by_name"
    /\ ~fn.done
    /\ fn' = [fn EXCEPT !.done = TRUE,
                        !.found = find_nc_program_by_name(fn.aux, fn.flag, fn.arg)]
    /\ UNCHANGED <<input, doc, cam, pc, uiVars, result, batchVars, hostVars, toolpathVars>>

NextLookup == CallNormalize \/ CallFindOperation \/ CallFindProgram

SpecLookup == InitLookup /\ [][NextLookup]_vars

(***************************************************************************)
(* Properties.                                                             *)
(***************************************************************************)
ModelCount == Len(doc.data.models)

\* The batch-level checks of lines 167-185 all passed.
ConfigAccepted ==
    /\ doc.hasDesign
    /\ doc.fileState = "ok"
    /\ doc.data.modelsIsList
    /\ doc.data.models # <<>>
    /\ doc.data.outputDirectory # <<>>

\* A BatchConfig of the data model: accepted, and every entry of models is
\* a mapping.
ValidBatchConfig ==
    /\ ConfigAccepted
    /\ \A i \in 1..ModelCount : doc.data.models[i].isMapping

HasPrefix(t, pre) == Len(t) >= Len(pre) /\ SubSeq(t, 1, Len(pre)) = pre

\* The line the except clause writes: "<name>: FAILED (<reason>)".
IsFailureLine(m) == HasPrefix(MessageText(m), m.name \o FailedLiteral)

\* C1: whenever the batch-level checks passed, the per-model pipeline was
\* started for every model, in file order, by the time the batch returns.
C1_EveryModelStarted ==
    (result.returned /\ ConfigAccepted) => started = [i \in 1..ModelCount |-> i]

InitialParams == [p \in {"height", "width", "thickness"} |-> <<>>]

\* C3: when the design is missing, the file cannot be loaded, models is
\* empty or no list, or outputDirectory is absent, the batch returns
\* success = false with one message and has written no parameter, exported
\* nothing, created no directory, made no host call and started no model.
C3_ValidationFailureRunsNothing ==
    (/\ result.returned
     /\ \/ ~doc.hasDesign
        \/ doc.fileState \in {"missing", "malformed"}
        \/ ~doc.data.modelsIsList
        \/ doc.data.models = <<>>
        \/ doc.data.outputDirectory = <<>>)
    => /\ ~result.success
       /\ Len(result.messages) = 1
       /\ params = InitialParams
       /\ timelineMoved
       /\ files = <<>>
       /\ dirs = {}
       /\ calls = <<>>
       /\ started = <<>>
       /\ workspace = design_workspace

\* A returned batch whose JSON had models but no outputDirectory.
C3_Witness ==
    /\ result.returned
    /\ doc.fileState = "ok"
    /\ doc.data.modelsIsList /\ doc.data.models # <<>>
    /\ doc.data.outputDirectory = <<>>
    /\ doc.data.gcodeDirectory # <<>>

\* At least one but not all three of the CAM fields are present.
PartialCamConfig ==
    LET present == {f \in {"g", "n", "o"} :
                       CASE f = "g" -> doc.data.gcodeDirectory # <<>>
                         [] f = "n" -> doc.data.ncProgramName # <<>>
                         [] OTHER   -> doc.data.operationName # <<>>}
    IN  Cardinality(present) \in {1, 2}

CamCallNames ==
    {"activateCAM", "find_operation", "generateToolpath", "find_nc_program",
     "postToNCFile", "restore_workspace"}

\* C4: with a partial CAM configuration, the iteration that exports a model
\* appends exactly its "Exported to" line and then its "Skipped G-code
\* posting" line, leaves the success flag alone and goes on to the next
\* model; and the CAM workspace is never activated and no lookup, toolpath
\* or post call is ever made.
C4_PartialCamSkips ==
    /\ [][(InLoop /\ PartialCamConfig /\ files' # files) =>
            /\ messages' = messages \o <<ExportedMessage,
                                         Message("Skipped", idx, CurName, <<>>)>>
            /\ MessageText(messages'[Len(messages')]) = CurName \o SkippedLiteral
            /\ overall_success' = overall_success
            /\ idx' = idx + 1
            /\ pc' = "model"]_vars
    /\ [](PartialCamConfig =>
            /\ workspace = design_workspace
            /\ Range(calls) \cap CamCallNames = {}
            /\ pc \notin {"wait", "post"})

\* A model exported and skipped under a partial configuration while the
\* batch is still successful.
C4_Witness ==
    /\ PartialCamConfig
    /\ doc.data.ncProgramName # <<>> /\ doc.data.operationName = <<>>
    /\ messages # <<>>
    /\ messages[Len(messages)].kind = "Skipped"
    /\ overall_success
    /\ files # <<>>

\* C5: between models and when the batch has returned, the workspace that
\* was active before the batch is active again.
C5_WorkspaceRestored ==
    pc \in {"model", "summary", "returned"} => workspace = design_workspace

TimeoutReason == <<"Toolpath generation timed out">>

\* C6: the wait always ends; it never goes on past 120 seconds; and the
\* step on which the clock reads more than 120 seconds appends one FAILED
\* line for the current model and moves on to the next model.
C6_WaitEndsByTimeout ==
    /\ (pc = "wait") ~> (pc # "wait")
    /\ [](pc = "wait" => elapsed <= timeout)
    /\ [][(pc = "wait" /\ generating /\ elapsed' > timeout) =>
            /\ messages' = Append(messages, Message("FAILED", idx, CurName, TimeoutReason))
            /\ IsFailureLine(messages'[Len(messages')])
            /\ ~overall_success'
            /\ idx' = idx + 1
            /\ pc' = "model"
            /\ ~result'.returned]_vars

\* The first model timed out and the second was started afterwards.
C6_Witness ==
    /\ \E k \in DOMAIN messages :
           /\ messages[k].model = 1
           /\ messages[k].kind = "FAILED"
           /\ messages[k].detail = TimeoutReason
    /\ started = <<1, 2>>

ExportedLines == {k \in DOMAIN result.messages : result.messages[k].kind = "Exported"}

\* C7: when every model of a returned batch was exported, the export paths
\* are pairwise distinct.
C7_ExportPathsDistinct ==
    (result.returned /\ ValidBatchConfig /\ Cardinality(ExportedLines) = ModelCount) =>
        \A j, k \in ExportedLines :
            j # k => result.messages[j].detail # result.messages[k].detail

Activated == input.id = "startButton" /\ input.value

\* C8: no message box is shown while process_parameter_sets runs; once the
\* handler has returned from an activation exactly one box was shown and
\* the Start button is false; after a batch the one box is the summary.
C8_OneBoxAfterBatch ==
    /\ pc \in {"process", "model", "wait", "post", "summary"} =>
           boxes = <<>> /\ startButton
    /\ (pc = "returned" /\ Activated) => Len(boxes) = 1 /\ ~startButton
    /\ (pc = "returned" /\ result.returned) =>
           boxes = <<IF result.success THEN "completed" ELSE "failed">>

\* The handler returned after a batch of two models.
C8_Witness ==
    /\ pc = "returned"
    /\ Activated
    /\ result.returned
    /\ Len(result.messages) >= 2
    /\ Len(boxes) = 1

Sanitized == fn.f = "sanitize_filename" /\ fn.done

\* Every character of invalid_chars, and the space, replaced by "_".
ReplacedEach(name) ==
    [i \in 1..Len(name) |->
        IF name[i] \in invalid_chars \cup {" "} THEN "_" ELSE name[i]]

NoBadChar(r) == \A i \in 1..Len(r) : r[i] \notin invalid_chars \cup {" "}

OnlyUnderscores(m) == \A i \in 1..Len(m) : m[i] = "_"

\* C9 as stated: the result is non-empty and free of the invalid characters
\* and of spaces; it is the input with each such character replaced by "_",
\* or "model" when nothing but such characters is in the input.
C9_EachCharReplaced ==
    Sanitized =>
        /\ fn.out # <<>>
        /\ NoBadChar(fn.out)
        /\ fn.out = IF OnlyUnderscores(ReplacedEach(fn.arg)) THEN ModelLiteral
                    ELSE ReplacedEach(fn.arg)

\* C9 as amended: the result is non-empty and free of the invalid characters
\* and of spaces; it is the input with each such character replaced by "_"
\* and the leading and trailing underscores cut off, or "model" when nothing
\* but underscores is left.
C9_ReplacedThenStripped ==
    Sanitized =>
        LET m == ReplacedEach(fn.arg)
        IN  /\ fn.out # <<>>
            /\ NoBadChar(fn.out)
            /\ IF OnlyUnderscores(m) THEN fn.out = ModelLiteral
               ELSE \E i, j \in 1..Len(m) :
                       /\ i <= j
                       /\ m[i] # "_" /\ m[j] # "_"
                       /\ \A k \in 1..Len(m) : (k < i \/ k > j) => m[k] = "_"
                       /\ fn.out = SubSeq(m, i, j)
            /\ fn.arg = SanitizeExample => fn.out = <<"a", "_", "b", "_", "c", "_", "d">>
            /\ fn.arg = <<"*", "*", "*">> => fn.out = ModelLiteral

\* An input with a leading invalid character and an inner space.
C9_Witness ==
    /\ Sanitized
    /\ fn.arg = <<"/", "a", " ", "a">>
    /\ fn.out = <<"a", "_", "a">>

Normalized == fn.f = "normalize_operation_name" /\ fn.done

\* The brackets of name pair up: no "]" without an open "[", none left open.
RECURSIVE Depth(_, _)
Depth(name, i) ==
    IF i = 0 THEN 0
    ELSE Depth(name, i - 1)
            + (IF name[i] = "[" THEN 1 ELSE IF name[i] = "]" THEN -1 ELSE 0)

Balanced(name) ==
    /\ \A i \in 1..Len(name) : Depth(name, i) >= 0
    /\ Depth(name, Len(name)) = 0

\* The characters of name at the positions of S, in order.
Pick(name, S) ==
    [n \in 1..Cardinality(S) |->
        name[CHOOSE i \in S : Cardinality({j \in S : j <= i}) = n]]

\* The positions outside every tag, a tag running from a "[" to the next "]".
OutsideTags(name) ==
    {i \in 1..Len(name) :
        /\ name[i] \notin {"[", "]"}
        /\ \A j \in 1..(i - 1) :
               name[j] = "[" => \E k \in (j + 1)..(i - 1) : name[k] = "]"}

FindOperationCalled == fn.f = "find_operation_by_name" /\ fn.done

\* Some operation's normalized name equals the non-empty normalized target.
NormalizedMatchExists ==
    /\ normalize_operation_name(fn.arg) # <<>>
    /\ \E i \in 1..Len(fn.aux) :
           /\ fn.aux[i] # NoItem
           /\ normalize_operation_name(fn.aux[i]) = normalize_operation_name(fn.arg)

FindsOnNormalizedMatch ==
    /\ (FindOperationCalled /\ NormalizedMatchExists) => fn.found \in 1..Len(fn.aux)
    /\ (FindOperationCalled /\ fn.aux = <<OperationText>> /\ fn.arg = TargetText) =>
           fn.found = 1

\* C10 as stated: in a name whose brackets pair up, everything from a "["
\* through its matching "]" is removed, and the rest is trimmed, lowercased
\* and freed of spaces; and an operation is found whenever one's normalized
\* name equals the non-empty normalized target.
C10_MatchingBracketRemoved ==
    /\ (Normalized /\ Balanced(fn.arg)) =>
           fn.out = RemoveChar(Lower(Strip(NormalizeLoopNested(fn.arg, 1, 0, <<>>),
                                           Whitespace)), " ")
    /\ FindsOnNormalizedMatch

\* C10 as amended: everything from a "[" through the next "]" is removed
\* (a "[" that is never closed removes the rest, a "]" outside a tag only
\* itself), and the rest is trimmed, lowercased and freed of spaces; and an
\* operation is found whenever one's normalized name equals the non-empty
\* normalized target.
C10_NextBracketRemoved ==
    /\ Normalized =>
           fn.out = RemoveChar(Lower(Strip(Pick(fn.arg, OutsideTags(fn.arg)),
                                           Whitespace)), " ")
    /\ FindsOnNormalizedMatch

\* "Fa1 [T]" is found for the target "fa1".
C10_Witness ==
    /\ FindOperationCalled
    /\ fn.aux = <<OperationText>>
    /\ fn.arg = TargetText
    /\ fn.found = 1

\* The positions of model i's lines in the returned list.
LinesOf(i) == {k \in DOMAIN result.messages : result.messages[k].model = i}

NoCamField ==
    /\ doc.data.gcodeDirectory = <<>>
    /\ doc.data.ncProgramName = <<>>
    /\ doc.data.operationName = <<>>

OwnExpressions(i) ==
    [p \in {"height", "width", "thickness"} |->
        build_expression(doc.data.models[i].vals[p], Unit(doc.data))]

IsWrite(c) == c \in {"setExpression", "addParameter"}

\* A step that records an "Exported to" line.
RecordsExported ==
    \E k \in DOMAIN messages' : k > Len(messages) /\ messages'[k].kind = "Exported"

\* C12: the step that records a model's "Exported to" line is the step that
\* executes its STEP export; that export sees height, width and thickness
\* holding exactly the expressions built from the model's own values, with
\* the timeline at its end; and the host calls of the model begin with the
\* three parameter writes, then moveToEnd, then the export.  The same holds
\* of the latest export in every state, whatever earlier models did.
C12_ExportSeesOwnParameters ==
    /\ [][RecordsExported =>
            /\ pc = "model"
            /\ messages'[Len(messages) + 1] = ExportedMessage
            /\ Len(files') = Len(files) + 1
            /\ lastExport'.model = idx
            /\ lastExport'.params = OwnExpressions(idx)
            /\ params' = OwnExpressions(idx)
            /\ lastExport'.timelineMoved
            /\ timelineMoved'
            /\ Len(calls') >= 5
            /\ \A n \in 1..3 : IsWrite(calls'[n])
            /\ calls'[4] = "moveToEnd"
            /\ calls'[5] = "export"]_vars
    /\ [](lastExport.model # 0 =>
            /\ lastExport.params = OwnExpressions(lastExport.model)
            /\ lastExport.timelineMoved)

\* The first model failed after one of its parameters was written, and the
\* second model was exported.
C12_Witness ==
    /\ Len(messages) >= 2
    /\ messages[1].kind = "FAILED"
    /\ messages[1].detail = <<"host refused the expression">>
    /\ messages[2].kind = "Exported"
    /\ lastExport.model = 2
    /\ lastExport.params["height"] # <<"8", " ", "m", "m">>

\* The position of the first call named c in the current model's calls, 0
\* when there is none.
FirstCall(c) ==
    IF c \in Range(calls)
    THEN CHOOSE n \in DOMAIN calls : calls[n] = c /\ \A j \in 1..(n - 1) : calls[j] # c
    ELSE 0

CountCalls(c) == Cardinality({n \in DOMAIN calls : calls[n] = c})

RefusedReason == <<"Failed to start toolpath generation">>

\* C14: generateToolpath is called at most once per model; on the step that
\* reads a valid operation's flags it is called exactly when the toolpath is
\* not computed, out of date, or carries a warning or an error flag; the
\* wait loop is only entered right after the trigger; and the step on which
\* the trigger returns a failure appends the model's FAILED line and moves
\* to the next model with no poll of isGenerating, no clock reading, no NC
\* program lookup and no post call.
C14_RegenerationTriggeredOnce ==
    /\ [](CountCalls("generateToolpath") <= 1)
    /\ [][(/\ pc = "model"
            /\ started' # started
            /\ "find_operation" \in Range(calls')
            /\ FoundOperation # 0
            /\ opFlags'.isValid)
           => ("generateToolpath" \in Range(calls') <=>
                 \/ ~opFlags'.isToolpathComputed
                 \/ opFlags'.isToolpathOutOfDate
                 \/ opFlags'.hasToolpathWarning
                 \/ opFlags'.hasToolpathError)]_vars
    /\ [](pc \in {"wait", "post"} =>
            (Regenerated <=>
                \/ ~opFlags.isToolpathComputed
                \/ opFlags.isToolpathOutOfDate
                \/ opFlags.hasToolpathWarning
                \/ opFlags.hasToolpathError))
    /\ [](pc = "wait" => calls[Len(calls)] = "generateToolpath")
    /\ [][(pc = "model" /\ pc' = "model" /\ "generateToolpath" \in Range(calls')) =>
            /\ calls'[Len(calls')] = "generateToolpath"
            /\ messages' = messages \o <<ExportedMessage,
                                         Message("FAILED", idx, CurName, RefusedReason)>>
            /\ ~overall_success'
            /\ idx' = idx + 1
            /\ generating' = generating
            /\ elapsed' = elapsed
            /\ Len(files') = Len(files) + 1]_vars

\* The trigger refused to start for a toolpath that carried only a warning.
C14_Witness ==
    /\ pc = "model"
    /\ messages # <<>>
    /\ messages[Len(messages)].detail = RefusedReason
    /\ CountCalls("generateToolpath") = 1
    /\ opFlags.hasToolpathWarning
    /\ ~opFlags.hasToolpathError

\* The least index of a non-empty set of indices, 0 for the empty set.
First(S) == IF S = {} THEN 0 ELSE CHOOSE i \in S : \A j \in S : i <= j

\* The indices of the objects of items that match target under each rule.
ExactMatches(items, target) ==
    {i \in 1..Len(items) : items[i] # NoItem /\ items[i] = target}

NormalizedEqualMatches(items, target) ==
    {i \in 1..Len(items) :
        /\ items[i] # NoItem
        /\ normalize_operation_name(items[i]) = normalize_operation_name(target)}

NormalizedContainsMatches(items, target) ==
    {i \in 1..Len(items) :
        /\ items[i] # NoItem
        /\ normalize_operation_name(target) # <<>>
        /\ Contains(normalize_operation_name(items[i]), normalize_operation_name(target))}

\* The rules applied in priority order over the whole list.
ByPriority(items, target) ==
    IF ExactMatches(items, target) # {} THEN First(ExactMatches(items, target))
    ELSE IF NormalizedEqualMatches(items, target) # {}
         THEN First(NormalizedEqualMatches(items, target))
         ELSE First(NormalizedContainsMatches(items, target))

\* C15: find_operation_by_name returns the operation the rules pick in
\* priority order over the whole list (exact name, else the first with an
\* equal normalized name, else the first whose normalized name contains the
\* normalized target, else none), with and without the host's itemByName.
C15_RulesInPriorityOrder ==
    FindOperationCalled => fn.found = ByPriority(fn.aux, fn.arg)

FindProgramCalled == fn.f = "find_nc_program_by_name" /\ fn.done

\* The programs of items that match target under any of the three rules.
AnyRuleMatches(items, target) ==
    ExactMatches(items, target) \cup NormalizedEqualMatches(items, target)
        \cup NormalizedContainsMatches(items, target)

\* C16: find_nc_program_by_name returns a program whose name equals the
\* target when there is one, otherwise a program whose normalized name
\* equals or contains the normalized target, and nothing (NC program not
\* found) only when no program matches under any of these rules.  The target
\* is a non-empty name, as line 201 guarantees.
C16_ProgramFoundLikeOperation ==
    (FindProgramCalled /\ fn.arg # <<>>) =>
        /\ ExactMatches(fn.aux, fn.arg) # {} => fn.found \in ExactMatches(fn.aux, fn.arg)
        /\ fn.found # 0 => fn.found \in AnyRuleMatches(fn.aux, fn.arg)
        /\ fn.found = 0 => AnyRuleMatches(fn.aux, fn.arg) = {}

MissingReason(model) ==
    <<"Missing parameters: ">>
        \o SelectSeq(<<"height", "width", "thickness">>, LAMBDA p : p \notin DOMAIN model.vals)

LacksKey(model) == \E p \in {"height", "width", "thickness"} : p \notin DOMAIN model.vals

\* C17: the iteration of a model that lacks one of height, width and
\* thickness writes and creates no host parameter, leaves the timeline, the
\* files, the directories, the workspace and the toolpath alone, makes no
\* host call, and only appends the model's FAILED line naming the missing
\* keys before it moves on to the next model; the host parameters stay as
\* the previous model left them.
C17_MissingKeyChangesNothing ==
    [][(InLoop /\ CurModel.isMapping /\ LacksKey(CurModel)) =>
        /\ params' = params
        /\ timelineMoved' = timelineMoved
        /\ files' = files
        /\ lastExport' = lastExport
        /\ dirs' = dirs
        /\ workspace' = workspace
        /\ opFlags' = opFlags /\ generating' = generating /\ elapsed' = elapsed
        /\ calls' = <<>>
        /\ started' = Append(started, idx)
        /\ messages' = Append(messages, Message("FAILED", idx, CurName,
                                                MissingReason(CurModel)))
        /\ ~overall_success'
        /\ idx' = idx + 1
        /\ pc' = "model"]_vars

\* The second model lacked width after the first was exported: the
\* parameters are still the first model's.
C17_Witness ==
    /\ Len(messages) = 2
    /\ messages[1].kind = "Exported"
    /\ messages[2].kind = "FAILED"
    /\ messages[2].model = 2
    /\ messages[2].detail = <<"Missing parameters: ", "width">>
    /\ lastExport.model = 1
    /\ params = lastExport.params
    /\ params["width"] # <<>>
    /\ calls = <<>>

====
